---- MODULE Spec2Model ----
(***************************************************************************)
(* Model of the Solana message_bridge program (Anchor): the payload codec  *)
(* (message.rs), the accounts (state.rs), the account constraints of each  *)
(* instruction (context.rs) and the instruction handlers (lib.rs).         *)
(*                                                                         *)
(* An instruction is one atomic transaction: Anchor first validates the    *)
(* accounts (deserializes the plain fields, runs the `init` constraints,   *)
(* then the remaining constraints), then runs the handler; an Err at any   *)
(* point aborts the transaction and the runtime discards every write.      *)
(*                                                                         *)
(* Integers are TLC integers, so u16/u32/u64/u128 inputs are drawn below   *)
(* 2^31; byte buffers are sequences of 0..255.                             *)
(***************************************************************************)
EXTENDS Integers, Sequences, FiniteSets, TLC

VARIABLES
    config,             \* Config account: owner, chain_id, nonce
    current_value,      \* CurrentValue account: value
    foreign_emitters,   \* ForeignEmitter PDAs, keyed by chain_id
    received_messages,  \* ReceivedMessage PDAs, keyed by <<emitter_chain, sequence>>
    lamports,           \* balances of the payer and of the Wormhole fee collector
    wormhole_bridge,    \* data of the Wormhole BridgeData account (holds the fee)
    wormhole_messages,  \* messages posted to Wormhole, in emission order
    program,            \* the deployed program: the build profile it was compiled with
    last,               \* the last instruction: its name and its result
    codec               \* codec harness: a message, its encoding, the decoding

vars == <<config, current_value, foreign_emitters, received_messages, lamports,
          wormhole_bridge, wormhole_messages, program, last, codec>>

-----------------------------------------------------------------------------
(* Bounds of the model *)

\* Send is enabled while fewer than MaxNonce messages have been posted
MaxNonce == 2

\* the payer starts with 0..MaxLamports lamports
MaxLamports == 3

\* the longest raw buffer given to the decoders
MaxRawLen == 52

-----------------------------------------------------------------------------
(* Program constants *)

SOLANA_CHAIN_ID == 1

ValueMessage_PAYLOAD_SIZE == 18

InboundMessage_PAYLOAD_SIZE == 50

\* minimum size of a PostedVAA account: 3 + 88 + 4 bytes before the payload
POSTED_VAA_MIN_SIZE == 95

\* BridgeData: config.fee is the u64 at bytes 16..24
BRIDGE_FEE_END == 24

-----------------------------------------------------------------------------
(* Bytes *)

RECURSIVE to_be_bytes(_, _)
\* n.to_be_bytes() of a w-byte unsigned integer
to_be_bytes(n, w) ==
    IF w = 0 THEN <<>> ELSE Append(to_be_bytes(n \div 256, w - 1), n % 256)

RECURSIVE to_le_bytes(_, _)
\* n.to_le_bytes() of a w-byte unsigned integer
to_le_bytes(n, w) ==
    IF w = 0 THEN <<>> ELSE <<n % 256>> \o to_le_bytes(n \div 256, w - 1)

RECURSIVE from_be_bytes(_)
\* uN::from_be_bytes(b)
from_be_bytes(b) ==
    IF b = <<>> THEN 0
    ELSE from_be_bytes(SubSeq(b, 1, Len(b) - 1)) * 256 + b[Len(b)]

RECURSIVE from_le_bytes(_)
\* uN::from_le_bytes(b)
from_le_bytes(b) ==
    IF b = <<>> THEN 0 ELSE b[1] + 256 * from_le_bytes(Tail(b))

\* the Rust slice data[lo..hi] (0-based, hi exclusive)
Slice(data, lo, hi) == SubSeq(data, lo + 1, hi)

\* [x; n]
Repeat(x, n) == [i \in 1..n |-> x]

\* the number of values of a u16
U16_RANGE == 256 * 256

\* A u32 as two 16-bit halves, u32::MAX being more than an integer of the
\* model checker can hold: the u32 of the integer n
u32(n) == [hi |-> n \div U16_RANGE, lo |-> n % U16_RANGE]

\* the integer of a u32 below 2^31
u32_value(x) == x.hi * U16_RANGE + x.lo

u32_MAX == [hi |-> U16_RANGE - 1, lo |-> U16_RANGE - 1]

\* x <= y on u32
u32_le(x, y) == x.hi < y.hi \/ (x.hi = y.hi /\ x.lo <= y.lo)

\* x.wrapping_add(1)
u32_wrapping_add_one(x) ==
    IF x.lo + 1 < U16_RANGE
    THEN [x EXCEPT !.lo = @ + 1]
    ELSE [hi |-> (x.hi + 1) % U16_RANGE, lo |-> 0]

\* x.to_le_bytes() of a u32
u32_to_le_bytes(x) == to_le_bytes(x.lo, 2) \o to_le_bytes(x.hi, 2)

\* Rust bounds checking: data[i] with i < hi and data[lo..hi] panic unless
\* hi <= data.len()
InBounds(data, hi) == hi <= Len(data)

-----------------------------------------------------------------------------
(* message.rs: the payload codec *)

\* mutant: the destination chain id written little-endian
MutEncodeLittleEndian(msg) ==
    to_le_bytes(msg.destination_chain_id, 2) \o to_be_bytes(msg.value, 16)

\* ValueMessage::encode
ValueMessage_encode(msg) ==
    to_be_bytes(msg.destination_chain_id, 2) \o to_be_bytes(msg.value, 16)

\* ValueMessage::decode; the index expressions data[0], data[1], data[2..18]
\* panic on a slice that is shorter than 18 bytes
ValueMessage_decode(data) ==
    IF Len(data) < ValueMessage_PAYLOAD_SIZE
    THEN [err |-> "InvalidPayload"]
    ELSE IF ~InBounds(data, 18)
    THEN [err |-> "Panic"]
    ELSE [err |-> "Ok",
          msg |-> [destination_chain_id |-> from_be_bytes(<<data[1], data[2]>>),
                   value |-> from_be_bytes(Slice(data, 2, 18))]]

\* mutant: the extended decoder checks the length against the compact size
MutInboundDecodeCompactSize(data) ==
    IF Len(data) < ValueMessage_PAYLOAD_SIZE
    THEN [err |-> "InvalidPayload"]
    ELSE IF ~InBounds(data, 50)
    THEN [err |-> "Panic"]
    ELSE [err |-> "Ok",
          msg |-> [tx_id |-> Slice(data, 0, 32),
                   destination_chain_id |-> from_be_bytes(<<data[33], data[34]>>),
                   value |-> from_be_bytes(Slice(data, 34, 50))]]

\* InboundMessage::decode; the index expressions data[0..32], data[32],
\* data[33], data[34..50] panic on a slice that is shorter than 50 bytes
InboundMessage_decode(data) ==
    IF Len(data) < InboundMessage_PAYLOAD_SIZE
    THEN [err |-> "InvalidPayload"]
    ELSE IF ~InBounds(data, 50)
    THEN [err |-> "Panic"]
    ELSE [err |-> "Ok",
          msg |-> [tx_id |-> Slice(data, 0, 32),
                   destination_chain_id |-> from_be_bytes(<<data[33], data[34]>>),
                   value |-> from_be_bytes(Slice(data, 34, 50))]]

-----------------------------------------------------------------------------
(* state.rs: the accounts *)

\* an all-zero 32-byte address
ZeroAddress == Repeat(0, 32)

\* #[derive(Default)] ForeignEmitter: what `init` creates before the handler runs
ForeignEmitter_default ==
    [chain_id |-> 0, address |-> ZeroAddress, is_default_payload |-> FALSE]

\* #[derive(Default)] ReceivedMessage: what `init` creates before the handler runs
ReceivedMessage_default ==
    [sequence |-> 0, emitter_chain |-> 0, value |-> 0, batch_id |-> 0]

\* mutant: only the first 31 bytes of the address are compared
MutVerifyPrefix(self, emitter_address) ==
    SubSeq(self.address, 1, 31) = SubSeq(emitter_address, 1, 31)

\* ForeignEmitter::verify
ForeignEmitter_verify(self, emitter_address) == self.address = emitter_address

\* the accounts an instruction reads and writes, as one record
Accounts ==
    [config |-> config,
     current_value |-> current_value,
     foreign_emitters |-> foreign_emitters,
     received_messages |-> received_messages,
     lamports |-> lamports,
     wormhole_bridge |-> wormhole_bridge,
     wormhole_messages |-> wormhole_messages,
     program |-> program]

\* the account map f with the account at address k set to v
Put(f, k, v) == [x \in DOMAIN f \cup {k} |-> IF x = k THEN v ELSE f[x]]

\* the outcome of a step that failed with error e in accounts acc
Fail(e, acc) == [err |-> e, acc |-> acc]

\* the outcome of a step that succeeded, leaving accounts acc
Done(acc) == [err |-> "Ok", acc |-> acc]

\* mutant: the writes of a failed instruction survive
MutTransactionNoRollback(pre, r) == r

\* The result of a transaction that started in accounts pre and whose
\* instruction (account validation, then handler) ended as r: Result<()> of
\* Err aborts the transaction, and none of its writes survive.
Transaction(pre, r) == IF r.err = "Ok" THEN r ELSE Fail(r.err, pre)

-----------------------------------------------------------------------------
(* register_emitter *)

\* mutant: foreign_emitter is init_if_needed, an existing PDA is accepted
MutRegisterAccountsInitIfNeeded(acc, owner, chain_id) ==
    LET created == IF chain_id \in DOMAIN acc.foreign_emitters THEN acc
                   ELSE [acc EXCEPT !.foreign_emitters =
                                        Put(@, chain_id, ForeignEmitter_default)]
    IN  IF acc.config.owner # owner
        THEN Fail("OwnerOnly", created)
        ELSE Done(created)

\* mutant: config has no has_one = owner constraint
MutRegisterAccountsNoHasOne(acc, owner, chain_id) ==
    IF chain_id \in DOMAIN acc.foreign_emitters
    THEN Fail("AccountAlreadyInUse", acc)
    ELSE Done([acc EXCEPT !.foreign_emitters =
                              Put(@, chain_id, ForeignEmitter_default)])

\* #[derive(Accounts)] RegisterEmitter: foreign_emitter is `init` (created
\* here, an Err if the PDA of chain_id already exists), and runs before the
\* has_one = owner constraint of config.
RegisterEmitter_accounts(acc, owner, chain_id) ==
    IF chain_id \in DOMAIN acc.foreign_emitters
    THEN Fail("AccountAlreadyInUse", acc)
    ELSE LET created == [acc EXCEPT !.foreign_emitters =
                                        Put(@, chain_id, ForeignEmitter_default)]
         IN  IF acc.config.owner # owner
             THEN Fail("OwnerOnly", created)
             ELSE Done(created)

\* mutant: the emitter address is not checked
MutRegisterNoZeroCheck(acc, chain_id, emitter_address, is_default_payload) ==
    IF ~(chain_id # SOLANA_CHAIN_ID)
    THEN Fail("CannotRegisterSolanaEmitter", acc)
    ELSE Done([acc EXCEPT !.foreign_emitters[chain_id] =
                   [chain_id |-> chain_id,
                    address |-> emitter_address,
                    is_default_payload |-> is_default_payload]])

\* mutant: the zero-address check comes before the chain id check
MutRegisterZeroCheckFirst(acc, chain_id, emitter_address, is_default_payload) ==
    IF ~(emitter_address # ZeroAddress)
    THEN Fail("ZeroEmitterAddress", acc)
    ELSE IF ~(chain_id # SOLANA_CHAIN_ID)
    THEN Fail("CannotRegisterSolanaEmitter", acc)
    ELSE Done([acc EXCEPT !.foreign_emitters[chain_id] =
                   [chain_id |-> chain_id,
                    address |-> emitter_address,
                    is_default_payload |-> is_default_payload]])

\* the handler register_emitter, on validated accounts
register_emitter(acc, chain_id, emitter_address, is_default_payload) ==
    IF ~(chain_id # SOLANA_CHAIN_ID)
    THEN Fail("CannotRegisterSolanaEmitter", acc)
    ELSE IF ~(emitter_address # ZeroAddress)
    THEN Fail("ZeroEmitterAddress", acc)
    ELSE Done([acc EXCEPT !.foreign_emitters[chain_id] =
                   [chain_id |-> chain_id,
                    address |-> emitter_address,
                    is_default_payload |-> is_default_payload]])

\* the instruction register_emitter as a transaction
RegisterEmitterIx(acc, a) ==
    LET v == RegisterEmitter_accounts(acc, a.owner, a.chain_id)
    IN  Transaction(acc,
            IF v.err # "Ok" THEN v
            ELSE register_emitter(v.acc, a.chain_id, a.emitter_address,
                                  a.is_default_payload))

-----------------------------------------------------------------------------
(* receive_value *)

\* mutant: vaa_hash is one of the seeds of the received_message PDA
MutReceivedKeyWithHash(a) == <<a.emitter_chain, a.sequence, a.vaa_hash>>

\* the seeds of the received_message PDA
ReceivedKey(a) == <<a.emitter_chain, a.sequence>>

\* mutant: received_message is init_if_needed, an existing PDA is accepted
MutReceiveAccountsInitIfNeeded(acc, a) ==
    IF a.emitter_chain \notin DOMAIN acc.foreign_emitters
    THEN Fail("AccountNotInitialized", acc)
    ELSE LET created == IF ReceivedKey(a) \in DOMAIN acc.received_messages
                        THEN acc
                        ELSE [acc EXCEPT !.received_messages =
                                  Put(@, ReceivedKey(a), ReceivedMessage_default)]
         IN  IF a.posted_vaa_owner # acc.config.wormhole_program
             THEN Fail("ConstraintOwner", created)
             ELSE Done(created)

\* #[derive(Accounts)] ReceiveValue: foreign_emitter is an Account, so the PDA
\* of emitter_chain must hold a ForeignEmitter; received_message is `init`
\* (created here, an Err if the PDA of (emitter_chain, sequence) already
\* exists); then posted_vaa must be owned by the Wormhole program.
ReceiveValue_accounts(acc, a) ==
    IF a.emitter_chain \notin DOMAIN acc.foreign_emitters
    THEN Fail("AccountNotInitialized", acc)
    ELSE IF ReceivedKey(a) \in DOMAIN acc.received_messages
    THEN Fail("AccountAlreadyInUse", acc)
    ELSE LET created == [acc EXCEPT !.received_messages =
                             Put(@, ReceivedKey(a), ReceivedMessage_default)]
         IN  IF a.posted_vaa_owner # acc.config.wormhole_program
             THEN Fail("ConstraintOwner", created)
             ELSE Done(created)

\* mutant: the Aztec branch does not check the destination chain
MutDecodeNoDestinationCheckAztec(foreign_emitter, payload, chain_id) ==
    IF foreign_emitter.is_default_payload
    THEN IF ~(Len(payload) >= ValueMessage_PAYLOAD_SIZE)
         THEN [err |-> "InvalidPayload"]
         ELSE LET m == ValueMessage_decode(payload)
              IN  IF m.err # "Ok" THEN m
                  ELSE IF ~(m.msg.destination_chain_id = chain_id)
                  THEN [err |-> "InvalidDestinationChainId"]
                  ELSE [err |-> "Ok", value |-> m.msg.value]
    ELSE IF ~(Len(payload) >= InboundMessage_PAYLOAD_SIZE)
         THEN [err |-> "InvalidPayload"]
         ELSE LET m == InboundMessage_decode(payload)
              IN  IF m.err # "Ok" THEN m
                  ELSE [err |-> "Ok", value |-> m.msg.value]

\* mutant: the format is chosen by the payload's length, 50 bytes or more
\* being read as the Aztec payload
MutDecodeByLength(foreign_emitter, payload, chain_id) ==
    IF Len(payload) < InboundMessage_PAYLOAD_SIZE
    THEN IF ~(Len(payload) >= ValueMessage_PAYLOAD_SIZE)
         THEN [err |-> "InvalidPayload"]
         ELSE LET m == ValueMessage_decode(payload)
              IN  IF m.err # "Ok" THEN m
                  ELSE IF ~(m.msg.destination_chain_id = chain_id)
                  THEN [err |-> "InvalidDestinationChainId"]
                  ELSE [err |-> "Ok", value |-> m.msg.value]
    ELSE LET m == InboundMessage_decode(payload)
         IN  IF m.err # "Ok" THEN m
             ELSE IF ~(m.msg.destination_chain_id = chain_id)
             THEN [err |-> "InvalidDestinationChainId"]
             ELSE [err |-> "Ok", value |-> m.msg.value]

\* the payload branch of receive_value: decode by the registered emitter's
\* type and check the destination chain
receive_value_decode(foreign_emitter, payload, chain_id) ==
    IF foreign_emitter.is_default_payload
    THEN IF ~(Len(payload) >= ValueMessage_PAYLOAD_SIZE)
         THEN [err |-> "InvalidPayload"]
         ELSE LET m == ValueMessage_decode(payload)
              IN  IF m.err # "Ok" THEN m
                  ELSE IF ~(m.msg.destination_chain_id = chain_id)
                  THEN [err |-> "InvalidDestinationChainId"]
                  ELSE [err |-> "Ok", value |-> m.msg.value]
    ELSE IF ~(Len(payload) >= InboundMessage_PAYLOAD_SIZE)
         THEN [err |-> "InvalidPayload"]
         ELSE LET m == InboundMessage_decode(payload)
              IN  IF m.err # "Ok" THEN m
                  ELSE IF ~(m.msg.destination_chain_id = chain_id)
                  THEN [err |-> "InvalidDestinationChainId"]
                  ELSE [err |-> "Ok", value |-> m.msg.value]

\* mutant: the size check uses 59, the minimum of the legacy layout
MutReceiveParseLegacyMinSize(vaa_data) ==
    IF ~(Len(vaa_data) >= 59)
    THEN [err |-> "InvalidPayload"]
    ELSE IF ~InBounds(vaa_data, 91)
    THEN [err |-> "Panic"]
    ELSE [err |-> "Ok",
          emitter_chain |-> from_le_bytes(<<vaa_data[58], vaa_data[59]>>),
          emitter_address |-> Slice(vaa_data, 59, 91),
          sequence |-> from_le_bytes(Slice(vaa_data, 49, 57))]

\* receive_value, the fixed part of the PostedVAA account: the size check
\* and the three fields read at fixed offsets
receive_value_parse(vaa_data) ==
    IF ~(Len(vaa_data) >= POSTED_VAA_MIN_SIZE)
    THEN [err |-> "InvalidPayload"]
    ELSE IF ~InBounds(vaa_data, 91)
    THEN [err |-> "Panic"]
    ELSE [err |-> "Ok",
          emitter_chain |-> from_le_bytes(<<vaa_data[58], vaa_data[59]>>),
          emitter_address |-> Slice(vaa_data, 59, 91),
          sequence |-> from_le_bytes(Slice(vaa_data, 49, 57))]

\* mutant: only the emitter chain is compared, not the sequence
MutMatchChainOnly(parsed, a) ==
    IF ~(parsed.emitter_chain = a.emitter_chain)
    THEN "InvalidPayload"
    ELSE "Ok"

\* receive_value, "Verify the provided parameters match the VAA"
receive_value_match(parsed, a) ==
    IF ~(parsed.emitter_chain = a.emitter_chain)
    THEN "InvalidPayload"
    ELSE IF ~(parsed.sequence = a.sequence)
    THEN "InvalidPayload"
    ELSE "Ok"

\* mutant: the length check is off by one, a buffer one byte short passes
MutReceivePayloadOffByOne(vaa_data) ==
    IF ~InBounds(vaa_data, 95)
    THEN [err |-> "Panic"]
    ELSE LET payload_len == from_le_bytes(Slice(vaa_data, 91, 95))
         IN  IF ~(Len(vaa_data) >= 94 + payload_len)
             THEN [err |-> "InvalidPayload"]
             ELSE IF ~InBounds(vaa_data, 95 + payload_len)
             THEN [err |-> "Panic"]
             ELSE [err |-> "Ok",
                   payload |-> Slice(vaa_data, 95, 95 + payload_len)]

\* receive_value, "Get payload": the length prefix at offset 91 and the
\* payload behind it
receive_value_payload(vaa_data) ==
    IF ~InBounds(vaa_data, 95)
    THEN [err |-> "Panic"]
    ELSE LET payload_len == from_le_bytes(Slice(vaa_data, 91, 95))
         IN  IF ~(Len(vaa_data) >= 95 + payload_len)
             THEN [err |-> "InvalidPayload"]
             ELSE IF ~InBounds(vaa_data, 95 + payload_len)
             THEN [err |-> "Panic"]
             ELSE [err |-> "Ok",
                   payload |-> Slice(vaa_data, 95, 95 + payload_len)]

\* mutant: the current value is only ever raised
MutApplyKeepsLargest(acc, a, value) ==
    [acc EXCEPT
       !.current_value = IF value > @ THEN value ELSE @,
       !.received_messages[ReceivedKey(a)] =
           [sequence |-> a.sequence,
            emitter_chain |-> a.emitter_chain,
            value |-> value,
            batch_id |-> 0]]

\* receive_value, "Update current value" and "Store received message info"
receive_value_apply(acc, a, value) ==
    [acc EXCEPT
       !.current_value = value,
       !.received_messages[ReceivedKey(a)] =
           [sequence |-> a.sequence,
            emitter_chain |-> a.emitter_chain,
            value |-> value,
            batch_id |-> 0]]

\* the handler receive_value, on validated accounts
receive_value(acc, a) ==
    LET vaa_data == a.posted_vaa
        foreign_emitter == acc.foreign_emitters[a.emitter_chain]
        parsed == receive_value_parse(vaa_data)
    IN
    IF parsed.err # "Ok"
    THEN Fail(parsed.err, acc)
    ELSE IF receive_value_match(parsed, a) # "Ok"
    THEN Fail(receive_value_match(parsed, a), acc)
    ELSE IF ~ForeignEmitter_verify(foreign_emitter, parsed.emitter_address)
    THEN Fail("InvalidForeignEmitter", acc)
    ELSE
    LET p == receive_value_payload(vaa_data)
    IN
    IF p.err # "Ok"
    THEN Fail(p.err, acc)
    ELSE
    LET d == receive_value_decode(foreign_emitter, p.payload, acc.config.chain_id)
    IN
    IF d.err # "Ok"
    THEN Fail(d.err, acc)
    ELSE Done(receive_value_apply(acc, a, d.value))

\* mutant: the size check and the comparison with the asserted key come
\* before the accounts are validated
MutReceiveParseBeforeAccounts(acc, a) ==
    LET parsed == receive_value_parse(a.posted_vaa)
        v == ReceiveValue_accounts(acc, a)
    IN  Transaction(acc,
            IF parsed.err # "Ok" THEN Fail(parsed.err, acc)
            ELSE IF receive_value_match(parsed, a) # "Ok"
            THEN Fail(receive_value_match(parsed, a), acc)
            ELSE IF v.err # "Ok" THEN v ELSE receive_value(v.acc, a))

\* the instruction receive_value as a transaction
ReceiveValueIx(acc, a) ==
    LET v == ReceiveValue_accounts(acc, a)
    IN  Transaction(acc, IF v.err # "Ok" THEN v ELSE receive_value(v.acc, a))

-----------------------------------------------------------------------------
(* send_value *)

\* #[derive(Accounts)] SendValue: the Wormhole accounts must be the ones stored
\* in config, and wormhole_message must be the PDA of the current nonce.
SendValue_accounts(acc, a) ==
    IF a.wormhole_bridge # acc.config.wormhole_bridge
    THEN Fail("InvalidWormholeConfig", acc)
    ELSE IF a.wormhole_fee_collector # acc.config.wormhole_fee_collector
    THEN Fail("InvalidWormholeConfig", acc)
    ELSE IF a.wormhole_sequence # acc.config.wormhole_sequence
    THEN Fail("InvalidWormholeConfig", acc)
    ELSE IF a.wormhole_message # <<"message", u32_to_le_bytes(acc.config.nonce)>>
    THEN Fail("ConstraintSeeds", acc)
    ELSE Done(acc)

\* the Wormhole fee read from the BridgeData account
bridge_fee(bridge_data) ==
    IF Len(bridge_data) >= BRIDGE_FEE_END
    THEN from_le_bytes(Slice(bridge_data, 16, 24))
    ELSE 0

\* mutant: the result of the transfer is ignored
MutSendFeeIgnoresTransfer(acc, a) ==
    LET fee == bridge_fee(acc.wormhole_bridge)
    IN  IF fee > 0
        THEN IF ~(acc.lamports.payer >= fee)
             THEN Fail("InsufficientFee", acc)
             ELSE IF a.transfer_result # "Ok"
             THEN Done(acc)
             ELSE Done([acc EXCEPT
                          !.lamports.payer = @ - fee,
                          !.lamports.fee_collector = @ + fee])
        ELSE Done(acc)

\* the fee block of send_value: pay the fee to the collector if one is due
send_value_fee(acc, a) ==
    LET fee == bridge_fee(acc.wormhole_bridge)
    IN  IF fee > 0
        THEN IF ~(acc.lamports.payer >= fee)
             THEN Fail("InsufficientFee", acc)
             ELSE IF a.transfer_result # "Ok"
             THEN Fail(a.transfer_result, acc)
             ELSE Done([acc EXCEPT
                          !.lamports.payer = @ - fee,
                          !.lamports.fee_collector = @ + fee])
        ELSE Done(acc)

\* mutant: the nonce is not incremented after the message is posted
MutSendPostNoIncrement(acc, a) ==
    LET payload == ValueMessage_encode(
                       [destination_chain_id |-> a.destination_chain_id,
                        value |-> a.value])
        nonce == acc.config.nonce
    IN  IF a.post_result # "Ok"
        THEN Fail(a.post_result, acc)
        ELSE Done([acc EXCEPT
                     !.wormhole_messages =
                         Append(@, [nonce |-> nonce, payload |-> payload])])

\* mutant: the nonce is incremented before the message is posted with it
MutSendPostIncrementFirst(acc, a) ==
    LET payload == ValueMessage_encode(
                       [destination_chain_id |-> a.destination_chain_id,
                        value |-> a.value])
        nonce == u32_wrapping_add_one(acc.config.nonce)
    IN  IF a.post_result # "Ok"
        THEN Fail(a.post_result, acc)
        ELSE Done([acc EXCEPT
                     !.wormhole_messages =
                         Append(@, [nonce |-> nonce, payload |-> payload]),
                     !.config.nonce = nonce])

\* wormhole::post_message and the increment that follows it. `config.nonce
\* += 1` on u32::MAX panics in a build with overflow checks and wraps to 0 in
\* a build without them.
send_value_post(acc, a) ==
    LET payload == ValueMessage_encode(
                       [destination_chain_id |-> a.destination_chain_id,
                        value |-> a.value])
        nonce == acc.config.nonce
    IN  IF a.post_result # "Ok"
        THEN Fail(a.post_result, acc)
        ELSE IF nonce = u32_MAX /\ acc.program.overflow_checks
        THEN Fail("Panic", acc)
        ELSE Done([acc EXCEPT
                     !.wormhole_messages =
                         Append(@, [nonce |-> nonce, payload |-> payload]),
                     !.config.nonce = u32_wrapping_add_one(nonce)])

\* mutant: the destination chain id is not checked
MutSendValueNoSelfCheck(acc, a) ==
    LET f == send_value_fee(acc, a)
    IN  IF f.err # "Ok" THEN f ELSE send_value_post(f.acc, a)

\* the handler send_value, on validated accounts
send_value(acc, a) ==
    IF ~(a.destination_chain_id # SOLANA_CHAIN_ID)
    THEN Fail("InvalidDestinationChainId", acc)
    ELSE LET f == send_value_fee(acc, a)
         IN  IF f.err # "Ok" THEN f ELSE send_value_post(f.acc, a)

\* the instruction send_value as a transaction
SendValueIx(acc, a) ==
    LET v == SendValue_accounts(acc, a)
    IN  Transaction(acc, IF v.err # "Ok" THEN v ELSE send_value(v.acc, a))

-----------------------------------------------------------------------------
(* Inputs *)

\* signers: the owner stored in config by initialize, and somebody else
Owner == "owner"

Signers == {Owner, "mallory"}

\* emitter addresses; AddrA and AddrB differ in the last byte only
AddrA == Repeat(170, 32)

AddrB == Repeat(170, 31) \o <<171>>

\* u128 values carried by messages (several non-zero bytes each)
Values == {258, 16909060}

\* chain ids used as arguments: Solana itself and two foreign chains
ChainIds == {SOLANA_CHAIN_ID, 2, 3}

\* every signer, chain id, address and payload type; for chain 3 the
\* registrations are those of one emitter (AddrA, Aztec payload)
RegisterArgs ==
    {a \in [owner : Signers,
            chain_id : ChainIds,
            emitter_address : {ZeroAddress, AddrA, AddrB},
            is_default_payload : BOOLEAN] :
        a.chain_id = 3 => (a.emitter_address # AddrB /\ ~a.is_default_payload)}

\* A PostedVAA account as the Wormhole program serializes it: "vaa", then
\* MessageData in Borsh (little-endian), the payload behind a 4-byte length.
PostedVaa(sequence, emitter_chain, emitter_address, payload_len, payload) ==
    <<118, 97, 97>>                     \* magic "vaa"
    \o <<1>>                            \* vaa_version
    \o <<1>>                            \* consistency_level
    \o to_le_bytes(1700000000, 4)       \* vaa_time
    \o Repeat(17, 32)                   \* vaa_signature_account
    \o to_le_bytes(1700000001, 4)       \* submission_time
    \o to_le_bytes(5, 4)                \* nonce
    \o to_le_bytes(sequence, 8)
    \o to_le_bytes(emitter_chain, 2)
    \o emitter_address
    \o to_le_bytes(payload_len, 4)
    \o payload

\* a 32-byte txId whose first 18 bytes read as the compact message (1, 772)
TxIdA == <<0, 1>> \o Repeat(0, 14) \o <<3, 4>> \o Repeat(7, 14)

\* a 32-byte txId whose first 18 bytes read as the compact message (3, 4)
TxIdB == <<0, 3>> \o Repeat(0, 15) \o <<4>> \o Repeat(8, 14)

\* the Aztec payload [txId(32) | chainId(2) | value(16)]
InboundPayload(tx_id, destination_chain_id, value) ==
    tx_id \o to_be_bytes(destination_chain_id, 2) \o to_be_bytes(value, 16)

CompactPayload(destination_chain_id, value) ==
    ValueMessage_encode([destination_chain_id |-> destination_chain_id,
                         value |-> value])

\* payloads: well-formed of both formats, for Solana and for another chain,
\* too short for either format, and between the two sizes
Payloads ==
    {CompactPayload(SOLANA_CHAIN_ID, v) : v \in Values}
    \cup {CompactPayload(2, 258)}
    \cup {InboundPayload(TxIdA, SOLANA_CHAIN_ID, 258),
          InboundPayload(TxIdB, SOLANA_CHAIN_ID, 16909060),
          InboundPayload(TxIdB, 3, 258)}
    \cup {<<>>,
          SubSeq(CompactPayload(SOLANA_CHAIN_ID, 258), 1, 17),
          CompactPayload(SOLANA_CHAIN_ID, 258) \o Repeat(0, 12),
          SubSeq(InboundPayload(TxIdB, SOLANA_CHAIN_ID, 258), 1, 49)}

\* the (emitter_chain, sequence) of the VAAs in flight
VaaKeys == {<<2, 1>>, <<2, 2>>, <<3, 1>>}

\* PostedVAA accounts whose length field is the payload's length: every
\* payload from AddrA, two well-formed ones from AddrB
WellFormedVaas ==
    {PostedVaa(k[2], k[1], AddrA, Len(p), p) : k \in VaaKeys, p \in Payloads}
    \cup {PostedVaa(k[2], k[1], AddrB, Len(p), p) :
              k \in VaaKeys,
              p \in {CompactPayload(SOLANA_CHAIN_ID, 258),
                     InboundPayload(TxIdA, SOLANA_CHAIN_ID, 258)}}

\* PostedVAA accounts that declare more payload than they hold: one byte
\* more (with and without a payload), and far more
TruncatedVaas ==
    {PostedVaa(1, 2, AddrA, 19, CompactPayload(SOLANA_CHAIN_ID, 258)),
     PostedVaa(1, 2, AddrA, 16777216, CompactPayload(SOLANA_CHAIN_ID, 258)),
     PostedVaa(1, 2, AddrA, 1, <<>>)}

\* PostedVAA accounts that are cut short, or declare more payload than they hold
MalformedVaas ==
    {<<>>, SubSeq(PostedVaa(1, 2, AddrA, 0, <<>>), 1, 94)} \cup TruncatedVaas

\* a buffer in the legacy layout: the emitter chain at offset 16 and the
\* sequence at offset 50, both big-endian, the emitter address at offset 18,
\* the payload from offset 59 to the end
LegacyVaa(sequence, emitter_chain, emitter_address, payload) ==
    Repeat(0, 16)
    \o to_be_bytes(emitter_chain, 2)
    \o emitter_address
    \o to_be_bytes(sequence, 8)
    \o <<1>>
    \o payload

\* the payloads carried in legacy buffers: none (59 bytes in all), a compact
\* one (77 bytes), an extended one (109 bytes)
LegacyPayloads ==
    {<<>>,
     CompactPayload(SOLANA_CHAIN_ID, 258),
     InboundPayload(TxIdA, SOLANA_CHAIN_ID, 258)}

LegacyVaas == {LegacyVaa(1, 2, AddrA, p) : p \in LegacyPayloads}

\* the well-formed PostedVAA accounts that carry the key k and the emitter
\* address addr
VaasFrom(k, addr) ==
    {PostedVaa(k[2], k[1], addr, Len(p), p) :
         p \in IF addr = AddrA
               THEN Payloads
               ELSE {CompactPayload(SOLANA_CHAIN_ID, 258),
                     InboundPayload(TxIdA, SOLANA_CHAIN_ID, 258)}}

\* the well-formed PostedVAA accounts that carry the key k
VaasOf(k) == VaasFrom(k, AddrA) \cup VaasFrom(k, AddrB)

\* the keys a caller asserts
AssertedKeys == {2, 3} \X {1, 2}

VaaHashes == {Repeat(1, 32), Repeat(2, 32)}

\* receive_value for the key k with the account data vaa, owned by Wormhole
ReceiveArg(k, vaa) ==
    [vaa_hash |-> Repeat(1, 32),
     emitter_chain |-> k[1],
     sequence |-> k[2],
     posted_vaa |-> vaa,
     posted_vaa_owner |-> "wormhole_program"]

\* receive_value with a PostedVAA owned by Wormhole, under every asserted
\* (emitter_chain, sequence); and, for the VAAs of chain 2, with another
\* vaa_hash or with an account that Wormhole does not own
ReceiveArgs ==
    [vaa_hash : {Repeat(1, 32)},
     emitter_chain : {2, 3},
     sequence : {1, 2},
     posted_vaa : WellFormedVaas \cup MalformedVaas \cup LegacyVaas,
     posted_vaa_owner : {"wormhole_program"}]
    \cup
    {[vaa_hash |-> h, emitter_chain |-> 2, sequence |-> s,
      posted_vaa |-> PostedVaa(s, 2, AddrA, Len(p), p),
      posted_vaa_owner |-> o] :
        h \in VaaHashes, s \in {1, 2},
        p \in {CompactPayload(SOLANA_CHAIN_ID, 258),
               InboundPayload(TxIdB, SOLANA_CHAIN_ID, 16909060)},
        o \in {"wormhole_program", "other_program"}}

\* the Wormhole accounts stored in config by initialize
WormholeAccounts ==
    [wormhole_bridge |-> "wormhole_bridge",
     wormhole_fee_collector |-> "wormhole_fee_collector",
     wormhole_sequence |-> "wormhole_sequence"]

\* the accounts a caller may pass to send_value: the right ones, or one wrong
SendAccounts ==
    {WormholeAccounts}
    \cup {[WormholeAccounts EXCEPT ![f] = "other_account"] :
              f \in DOMAIN WormholeAccounts}

\* the nonces whose message PDA a caller passes: the first ones and the
\* last two of a u32
MessageNonces ==
    {u32(n) : n \in 0..MaxNonce}
    \cup {[u32_MAX EXCEPT !.lo = @ - 1], u32_MAX}

SendArgs ==
    {[destination_chain_id |-> d, value |-> v,
      wormhole_bridge |-> w.wormhole_bridge,
      wormhole_fee_collector |-> w.wormhole_fee_collector,
      wormhole_sequence |-> w.wormhole_sequence,
      wormhole_message |-> <<"message", u32_to_le_bytes(n)>>,
      transfer_result |-> t, post_result |-> p] :
        d \in ChainIds, v \in Values, w \in SendAccounts, n \in MessageNonces,
        t \in {"Ok", "TransferFailed"}, p \in {"Ok", "PostMessageFailed"}}

\* BridgeData accounts: guardian_set_index, last_lamports,
\* guardian_set_expiration_time, fee; or too short to hold a fee
BridgeData(fee) ==
    to_le_bytes(3, 4) \o to_le_bytes(1000, 8) \o to_le_bytes(86400, 4)
    \o to_le_bytes(fee, 8)

BridgeDatas == {BridgeData(0), BridgeData(2), SubSeq(BridgeData(2), 1, 23)}

-----------------------------------------------------------------------------
(* The state machine *)

\* the codec harness at rest
CodecIdle == [stage |-> "idle"]

\* initialize: owner and Wormhole addresses stored, chain id 1, nonce 0,
\* current value 0; no emitter registered, nothing received or sent
InitAccounts ==
    /\ config = [owner |-> Owner,
                 wormhole_program |-> "wormhole_program",
                 wormhole_bridge |-> WormholeAccounts.wormhole_bridge,
                 wormhole_fee_collector |-> WormholeAccounts.wormhole_fee_collector,
                 wormhole_sequence |-> WormholeAccounts.wormhole_sequence,
                 chain_id |-> SOLANA_CHAIN_ID,
                 nonce |-> u32(0)]
    /\ program \in [overflow_checks : {TRUE}]
    /\ current_value = 0
    /\ foreign_emitters = << >>
    /\ received_messages = << >>
    /\ wormhole_messages = << >>
    /\ last = [op |-> "initialize", err |-> "Ok"]

\* destination chain ids and values given to the codec
CodecChainIds == {0, 1, 2, 255, 256, 258, 65535}

CodecValues == {0, 1, 255, 256, 258, 65536, 16909060, 2147483647}

\* the codec harness starts from any message over these
InitCodec ==
    /\ InitAccounts
    /\ lamports = [payer |-> 0, fee_collector |-> 0]
    /\ wormhole_bridge = BridgeData(0)
    /\ codec \in [stage : {"input"},
                  msg : [destination_chain_id : CodecChainIds, value : CodecValues],
                  data : {<<>>},
                  out : {[err |-> "None"]}]

Init ==
    /\ InitAccounts
    /\ lamports \in [payer : 0..MaxLamports, fee_collector : {0}]
    /\ wormhole_bridge \in BridgeDatas
    /\ codec = CodecIdle

\* the accounts after a transaction that ended as r
Commit(r) ==
    /\ config' = r.acc.config
    /\ current_value' = r.acc.current_value
    /\ foreign_emitters' = r.acc.foreign_emitters
    /\ received_messages' = r.acc.received_messages
    /\ lamports' = r.acc.lamports
    /\ wormhole_bridge' = r.acc.wormhole_bridge
    /\ wormhole_messages' = r.acc.wormhole_messages
    /\ program' = r.acc.program

Register ==
    \E a \in RegisterArgs :
        LET r == RegisterEmitterIx(Accounts, a)
        IN  /\ Commit(r)
            /\ last' = [op |-> "register_emitter", err |-> r.err]
            /\ UNCHANGED codec

Receive ==
    \E a \in ReceiveArgs :
        LET r == ReceiveValueIx(Accounts, a)
        IN  /\ Commit(r)
            /\ last' = [op |-> "receive_value", err |-> r.err]
            /\ UNCHANGED codec

Send ==
    /\ Len(wormhole_messages) < MaxNonce
    /\ \E a \in SendArgs :
        LET r == SendValueIx(Accounts, a)
        IN  /\ Commit(r)
            /\ last' = [op |-> "send_value", err |-> r.err]
            /\ UNCHANGED codec

\* the codec harness: encode the message, then decode the bytes
Encode ==
    /\ codec.stage = "input"
    /\ codec' = [codec EXCEPT !.stage = "encoded",
                              !.data = ValueMessage_encode(codec.msg)]
    /\ UNCHANGED <<config, current_value, foreign_emitters, received_messages,
                   lamports, wormhole_bridge, wormhole_messages, program, last>>

Decode ==
    /\ codec.stage = "encoded"
    /\ codec' = [codec EXCEPT !.stage = "decoded",
                              !.out = ValueMessage_decode(codec.data)]
    /\ UNCHANGED <<config, current_value, foreign_emitters, received_messages,
                   lamports, wormhole_bridge, wormhole_messages, program, last>>

NextCodec == Encode \/ Decode

\* the first n bytes of a buffer that reads as the compact message (1, 1)
\* and as the extended message (1, 1) behind an almost-zero txId
RawBuffer(n) == [i \in 1..n |-> IF i \in {2, 18, 34, 50} THEN 1 ELSE 0]

\* the decoder harness starts from a buffer of any length up to MaxRawLen
InitDecode ==
    /\ InitAccounts
    /\ lamports = [payer |-> 0, fee_collector |-> 0]
    /\ wormhole_bridge = BridgeData(0)
    /\ codec \in [stage : {"raw"},
                  data : {RawBuffer(n) : n \in 0..MaxRawLen},
                  out : {[err |-> "None"]}]

\* the decoder harness: one of the two decoders applied to the buffer
DecodeCompact ==
    /\ codec.stage = "raw"
    /\ codec' = [codec EXCEPT !.stage = "compact",
                              !.out = ValueMessage_decode(codec.data)]
    /\ UNCHANGED <<config, current_value, foreign_emitters, received_messages,
                   lamports, wormhole_bridge, wormhole_messages, program, last>>

DecodeExtended ==
    /\ codec.stage = "raw"
    /\ codec' = [codec EXCEPT !.stage = "extended",
                              !.out = InboundMessage_decode(codec.data)]
    /\ UNCHANGED <<config, current_value, foreign_emitters, received_messages,
                   lamports, wormhole_bridge, wormhole_messages, program, last>>

NextDecode == DecodeCompact \/ DecodeExtended

NextInbound == Register \/ Receive

NextOutbound == Send

Next == Register \/ Receive \/ Send

\* the inbound pipeline reads neither the balances nor the fee
InitInbound ==
    /\ Init
    /\ lamports.payer = 0
    /\ wormhole_bridge = BridgeData(0)

\* registration and the inbound pipeline
SpecInbound == InitInbound /\ [][NextInbound]_vars

\* The outbound pipeline at the end of the nonce's range: config.nonce is
\* u32::MAX - 1 or u32::MAX, as after that many messages (wormhole_messages
\* holds those posted from here on), and the program is built with or without
\* overflow checks.
InitNearMax ==
    /\ config = [owner |-> Owner,
                 wormhole_program |-> "wormhole_program",
                 wormhole_bridge |-> WormholeAccounts.wormhole_bridge,
                 wormhole_fee_collector |-> WormholeAccounts.wormhole_fee_collector,
                 wormhole_sequence |-> WormholeAccounts.wormhole_sequence,
                 chain_id |-> SOLANA_CHAIN_ID,
                 nonce |-> u32_MAX]
       \/ config = [owner |-> Owner,
                 wormhole_program |-> "wormhole_program",
                 wormhole_bridge |-> WormholeAccounts.wormhole_bridge,
                 wormhole_fee_collector |-> WormholeAccounts.wormhole_fee_collector,
                 wormhole_sequence |-> WormholeAccounts.wormhole_sequence,
                 chain_id |-> SOLANA_CHAIN_ID,
                 nonce |-> [u32_MAX EXCEPT !.lo = @ - 1]]
    /\ program \in [overflow_checks : BOOLEAN]
    /\ current_value = 0
    /\ foreign_emitters = << >>
    /\ received_messages = << >>
    /\ wormhole_messages = << >>
    /\ last = [op |-> "send_value", err |-> "Ok"]
    /\ lamports \in [payer : 0..MaxLamports, fee_collector : {0}]
    /\ wormhole_bridge \in BridgeDatas
    /\ codec = CodecIdle

\* the outbound pipeline
SpecOutbound == Init /\ [][NextOutbound]_vars

\* the outbound pipeline at the end of the nonce's range
SpecNearMax == InitNearMax /\ [][NextOutbound]_vars

\* the payload codec on its own
SpecCodec == InitCodec /\ [][NextCodec]_vars

\* the two decoders on raw buffers
SpecDecode == InitDecode /\ [][NextDecode]_vars

\* The whole program. The inbound instructions write current_value, the
\* emitters and the received messages; send_value writes config.nonce, the
\* balances and the posted messages; neither reads what the other writes, so
\* the properties of each are checked under SpecInbound and SpecOutbound.
Spec == Init /\ [][Next]_vars

-----------------------------------------------------------------------------
(* Claims *)

\* C1 (state part): in every state, a receive_value for a pair
\* (emitter_chain, sequence) that already has a ReceivedMessage fails with
\* the error of the `init` constraint and changes no account.
C1_DuplicateFails ==
    \A a \in ReceiveArgs :
        ReceivedKey(a) \in DOMAIN received_messages
            => ReceiveValueIx(Accounts, a) = Fail("AccountAlreadyInUse", Accounts)

\* C1 (step part): a receive_value that succeeds creates the ReceivedMessage
\* of a pair that had none and sets current_value to its value; no record
\* goes away; current_value changes only in a step that creates a record.
C1_Step ==
    /\ (last'.op = "receive_value" /\ last'.err = "Ok")
           => \E k \in DOMAIN received_messages' \ DOMAIN received_messages :
                  received_messages'[k].value = current_value'
    /\ DOMAIN received_messages \subseteq DOMAIN received_messages'
    /\ current_value' # current_value
           => DOMAIN received_messages' # DOMAIN received_messages

\* C1: for every (emitter_chain, sequence) at most one receive_value succeeds:
\* once one has, every later one for the pair fails as a duplicate, and
\* current_value keeps the applied value until a receive for another pair
\* succeeds.
C1_AtMostOncePerPair == []C1_DuplicateFails /\ [][C1_Step]_vars

\* C1 witness: a duplicate was refused after messages of two pairs were
\* applied, and current_value is the value of one of them.
C1_Witness ==
    /\ last = [op |-> "receive_value", err |-> "AccountAlreadyInUse"]
    /\ Cardinality(DOMAIN received_messages) >= 2
    /\ \E k \in DOMAIN received_messages :
           received_messages[k].value = current_value

\* the receive_value arguments that would succeed in the current state
ReceivableNow == {a \in ReceiveArgs : ReceiveValueIx(Accounts, a).err = "Ok"}

\* C2: of two receive_value transactions that are both valid in the current
\* state and claim the same (emitter_chain, sequence), whichever runs first
\* succeeds and the other then fails on the existing record, leaving the
\* accounts as the first left them: never have both applied their value.
C2_RaceExactlyOne ==
    \A a \in ReceivableNow, b \in ReceivableNow :
        ReceivedKey(a) = ReceivedKey(b)
            => LET first == ReceiveValueIx(Accounts, a)
                   second == ReceiveValueIx(first.acc, b)
               IN  /\ first.err = "Ok"
                   /\ second = Fail("AccountAlreadyInUse", first.acc)
                   /\ second.acc.current_value
                          = first.acc.received_messages[ReceivedKey(a)].value

\* C2 witness: a record exists, the last receive_value lost on it, and a VAA
\* of the same pair carrying another value would have been valid without it.
C2_Witness ==
    /\ last = [op |-> "receive_value", err |-> "AccountAlreadyInUse"]
    /\ \E a \in ReceiveArgs :
           /\ ReceivedKey(a) \in DOMAIN received_messages
           /\ LET without == [k \in DOMAIN received_messages \ {ReceivedKey(a)}
                                  |-> received_messages[k]]
                  r == ReceiveValueIx(
                           [Accounts EXCEPT !.received_messages = without], a)
              IN  /\ r.err = "Ok"
                  /\ r.acc.current_value
                         # received_messages[ReceivedKey(a)].value

\* C3: a receive_value that fails, at whichever check, changes no account:
\* current_value, the emitters and the ReceivedMessage records are as before.
C3_FailedReceiveChangesNothing ==
    /\ [](\A a \in ReceiveArgs :
              LET r == ReceiveValueIx(Accounts, a)
              IN  r.err # "Ok" => r.acc = Accounts)
    /\ [][(last'.op = "receive_value" /\ last'.err # "Ok")
              => UNCHANGED Accounts]_vars

\* C3 witness: a receive_value failed the destination check (after `init`
\* had created its record) and no ReceivedMessage exists.
C3_Witness ==
    /\ last = [op |-> "receive_value", err |-> "InvalidDestinationChainId"]
    /\ received_messages = << >>
    /\ current_value = 0

\* C4: a send_value that succeeds adds exactly 1 to config.nonce and one that
\* fails leaves it as it was.
C4_NonceStep ==
    /\ [](\A a \in SendArgs :
              LET r == SendValueIx(Accounts, a)
              IN  u32_value(r.acc.config.nonce)
                      = u32_value(config.nonce) + (IF r.err = "Ok" THEN 1 ELSE 0))
    /\ [][last'.op = "send_value"
              => u32_value(config'.nonce)
                     = u32_value(config.nonce)
                       + (IF last'.err = "Ok" THEN 1 ELSE 0)]_vars

\* C4 witness: after one message was sent, a send_value failed in
\* post_message and the nonce is still 1.
C4_Witness ==
    /\ last = [op |-> "send_value", err |-> "PostMessageFailed"]
    /\ config.nonce = u32(1)
    /\ Len(wormhole_messages) = 1

\* C5: send_value to Solana's own chain id fails for every value and changes
\* no account (nonce, balances, posted messages); with the right accounts
\* passed, the error is InvalidDestinationChainId.
C5_SelfDestinationFails ==
    \A a \in SendArgs :
        a.destination_chain_id = SOLANA_CHAIN_ID
            => LET r == SendValueIx(Accounts, a)
               IN  /\ r.err # "Ok"
                   /\ r.acc = Accounts
                   /\ SendValue_accounts(Accounts, a).err = "Ok"
                          => r.err = "InvalidDestinationChainId"

\* C5 witness: a send_value to chain 1 failed while a fee was due and the
\* payer could pay it; nothing was paid, posted or counted.
C5_Witness ==
    /\ last = [op |-> "send_value", err |-> "InvalidDestinationChainId"]
    /\ bridge_fee(wormhole_bridge) > 0
    /\ lamports.payer >= bridge_fee(wormhole_bridge)
    /\ lamports.fee_collector = 0
    /\ wormhole_messages = << >>
    /\ config.nonce = u32(0)

\* C6 (state part): when a fee is due, a payer below the fee gets
\* InsufficientFee, a failed transfer is the error of the send (also when
\* post_message would fail too: the fee comes first), a send that succeeds
\* has moved the fee, and a send that fails has posted nothing.
C6_FeeBeforePost ==
    \A a \in SendArgs :
        LET r == SendValueIx(Accounts, a)
            fee == bridge_fee(wormhole_bridge)
        IN  (/\ fee > 0
             /\ SendValue_accounts(Accounts, a).err = "Ok"
             /\ a.destination_chain_id # SOLANA_CHAIN_ID)
            => /\ lamports.payer < fee => r.err = "InsufficientFee"
               /\ (lamports.payer >= fee /\ a.transfer_result # "Ok")
                      => r.err = a.transfer_result
               /\ r.err = "Ok"
                      => /\ r.acc.lamports.payer = lamports.payer - fee
                         /\ r.acc.lamports.fee_collector
                                = lamports.fee_collector + fee
               /\ r.err # "Ok" => r.acc.wormhole_messages = wormhole_messages

\* C6: no message is posted by a send_value whose fee was not transferred:
\* every step that posts a message moves the fee from payer to collector.
C6_NoPostWithoutFee ==
    /\ []C6_FeeBeforePost
    /\ [][Len(wormhole_messages') > Len(wormhole_messages)
              => /\ lamports'.fee_collector
                        = lamports.fee_collector + bridge_fee(wormhole_bridge)
                 /\ lamports'.payer
                        = lamports.payer - bridge_fee(wormhole_bridge)]_vars

\* C6 witness: a fee was due, a message was posted and the collector holds
\* the fee.
C6_Witness ==
    /\ last = [op |-> "send_value", err |-> "Ok"]
    /\ bridge_fee(wormhole_bridge) > 0
    /\ Len(wormhole_messages) = 1
    /\ lamports.fee_collector = bridge_fee(wormhole_bridge)

\* C7: register_emitter for Solana's own chain id fails and leaves the
\* emitters unchanged for every address, zero or not, and payload type; called
\* by the owner it fails with CannotRegisterSolanaEmitter.
C7_SelfRegistrationFails ==
    \A a \in RegisterArgs :
        a.chain_id = SOLANA_CHAIN_ID
            => LET r == RegisterEmitterIx(Accounts, a)
               IN  /\ r.err # "Ok"
                   /\ r.acc = Accounts
                   /\ a.owner = config.owner
                          => r.err = "CannotRegisterSolanaEmitter"

\* C7 witness: a register_emitter for chain 1 was refused while another
\* chain's emitter is registered.
C7_Witness ==
    /\ last = [op |-> "register_emitter", err |-> "CannotRegisterSolanaEmitter"]
    /\ SOLANA_CHAIN_ID \notin DOMAIN foreign_emitters
    /\ DOMAIN foreign_emitters # {}

\* registering (chain_id, address, type) twice leaves the emitters that
\* registering it once leaves
RegisterTwiceIsOnce ==
    \A a \in RegisterArgs :
        LET once == RegisterEmitterIx(Accounts, a)
            twice == RegisterEmitterIx(once.acc, a)
        IN  once.err = "Ok"
                => twice.acc.foreign_emitters = once.acc.foreign_emitters

\* C8 as stated: register_emitter by the owner for a chain id that has a
\* ForeignEmitter succeeds and overwrites it with the new address and type;
\* registering the same thing twice is registering it once.
C8_Original ==
    /\ \A a \in RegisterArgs :
           (/\ a.owner = config.owner
            /\ a.chain_id \in DOMAIN foreign_emitters
            /\ a.emitter_address # ZeroAddress)
           => LET r == RegisterEmitterIx(Accounts, a)
              IN  /\ r.err = "Ok"
                  /\ r.acc.foreign_emitters[a.chain_id]
                         = [chain_id |-> a.chain_id,
                            address |-> a.emitter_address,
                            is_default_payload |-> a.is_default_payload]
    /\ RegisterTwiceIsOnce

\* C8 amended: register_emitter by the owner for a chain id that has a
\* ForeignEmitter fails on the `init` constraint and changes nothing, so a
\* registered emitter keeps the address and type of its first registration;
\* registering the same thing twice is registering it once.
C8_Amended ==
    /\ [](\A a \in RegisterArgs :
              (a.owner = config.owner /\ a.chain_id \in DOMAIN foreign_emitters)
                  => RegisterEmitterIx(Accounts, a)
                         = Fail("AccountAlreadyInUse", Accounts))
    /\ []RegisterTwiceIsOnce
    /\ [][\A c \in DOMAIN foreign_emitters :
              /\ c \in DOMAIN foreign_emitters'
              /\ foreign_emitters'[c] = foreign_emitters[c]]_vars

\* C8 witness: the emitter of chain 2 is registered and a further
\* register_emitter was refused because the account exists.
C8_Witness ==
    /\ last = [op |-> "register_emitter", err |-> "AccountAlreadyInUse"]
    /\ 2 \in DOMAIN foreign_emitters
    /\ foreign_emitters[2].address = AddrA

\* C9 as stated: register_emitter by a signer who is not config.owner fails
\* with OwnerOnly and changes nothing, for every chain id, address and type.
C9_Original ==
    \A a \in RegisterArgs :
        a.owner # config.owner
            => RegisterEmitterIx(Accounts, a) = Fail("OwnerOnly", Accounts)

\* C9 amended: register_emitter by a signer who is not config.owner fails and
\* changes nothing, for every chain id, address and type: with OwnerOnly when
\* the chain id has no ForeignEmitter, and on the `init` constraint, which
\* runs before has_one, when it has one.
C9_Amended ==
    \A a \in RegisterArgs :
        a.owner # config.owner
            => RegisterEmitterIx(Accounts, a)
                   = Fail(IF a.chain_id \in DOMAIN foreign_emitters
                          THEN "AccountAlreadyInUse" ELSE "OwnerOnly",
                          Accounts)

\* C9 witness: a register_emitter was refused with OwnerOnly while some
\* emitter is registered.
C9_Witness ==
    /\ last = [op |-> "register_emitter", err |-> "OwnerOnly"]
    /\ DOMAIN foreign_emitters # {}

\* C10: the encoding of (d, v) is 18 bytes, d big-endian in bytes 0..2 and v
\* big-endian in bytes 2..18, and decoding it gives back exactly (d, v).
C10_RoundTrip ==
    /\ codec.stage \in {"encoded", "decoded"}
           => LET data == codec.data
              IN  /\ Len(data) = 18
                  /\ \A i \in 1..18 : data[i] \in 0..255
                  /\ codec.msg.destination_chain_id = data[1] * 256 + data[2]
                  /\ \A i \in 3..14 : data[i] = 0
                  /\ codec.msg.value
                         = data[15] * 16777216 + data[16] * 65536
                           + data[17] * 256 + data[18]
    /\ codec.stage = "decoded"
           => codec.out = [err |-> "Ok", msg |-> codec.msg]

\* C10 witness: the largest chain id and value were encoded and decoded.
C10_Witness ==
    /\ codec.stage = "decoded"
    /\ codec.msg = [destination_chain_id |-> 65535, value |-> 2147483647]
    /\ codec.out.err = "Ok"

\* C11: the compact decoder fails with InvalidPayload on every buffer of
\* length 0..17, the extended decoder on every buffer of length 0..49, and
\* neither reads a byte at an index that the buffer does not have (no index
\* expression panics, whatever the length).
C11_ShortBufferFails ==
    /\ (codec.stage = "compact" /\ Len(codec.data) < 18)
           => codec.out = [err |-> "InvalidPayload"]
    /\ (codec.stage = "extended" /\ Len(codec.data) < 50)
           => codec.out = [err |-> "InvalidPayload"]
    /\ codec.stage \in {"compact", "extended"} => codec.out.err # "Panic"

\* the extended decoder has refused a 49-byte buffer
C11_Witness ==
    /\ codec.stage = "extended"
    /\ Len(codec.data) = 49
    /\ codec.out = [err |-> "InvalidPayload"]

\* the account validation of receive_value passes for the key k, and the
\* emitter registered for its chain has the address addr
Admitted(k, addr) ==
    /\ k[1] \in DOMAIN foreign_emitters
    /\ foreign_emitters[k[1]].address = addr
    /\ k \notin DOMAIN received_messages

\* receive_value of the account data vaa under the key k ends as the payload
\* branch does on the payload p
EndsAsDecodeOf(k, vaa, p) ==
    LET r == ReceiveValueIx(Accounts, ReceiveArg(k, vaa))
        d == receive_value_decode(foreign_emitters[k[1]], p, config.chain_id)
    IN  /\ r.err = d.err
        /\ d.err = "Ok" => r.acc.current_value = d.value
        /\ d.err # "Ok" => r.acc = Accounts

C13_TruncatedEnvelopeFails ==
    \A a \in ReceiveArgs :
        a.posted_vaa \in TruncatedVaas
            => LET r == ReceiveValueIx(Accounts, a)
               IN  /\ r.err \notin {"Ok", "Panic"}
                   /\ r.acc = Accounts
                   /\ (ReceiveValue_accounts(Accounts, a).err = "Ok"
                        /\ ReceivedKey(a) = <<2, 1>>
                        /\ foreign_emitters[2].address = AddrA)
                          => r.err = "InvalidPayload"

\* a receive has failed with InvalidPayload where the compact emitter AddrA
\* is registered and the key is free, a state in which the buffer declaring
\* 19 bytes over an 18-byte payload fails at the length check
C13_Witness ==
    /\ last = [op |-> "receive_value", err |-> "InvalidPayload"]
    /\ Admitted(<<2, 1>>, AddrA)
    /\ foreign_emitters[2].is_default_payload
    /\ receive_value_payload(
           PostedVaa(1, 2, AddrA, 19, CompactPayload(SOLANA_CHAIN_ID, 258))).err
       = "InvalidPayload"
    /\ received_messages = << >>
    /\ current_value = 0

\* C14: the payload format is chosen by the registered emitter's tag alone.
\* From an emitter registered as extended a payload of 18..49 bytes fails with
\* InvalidPayload and changes nothing, although it is long enough for the
\* compact format; from an emitter registered as compact a payload of 50 bytes
\* or more is read as compact from its first 18 bytes: destination from bytes
\* 0..1, value from bytes 2..17, the rest ignored.
C14_FormatByTagOnly ==
    \A k \in VaaKeys, p \in Payloads :
        Admitted(k, AddrA)
            => LET r == ReceiveValueIx(Accounts,
                            ReceiveArg(k, PostedVaa(k[2], k[1], AddrA, Len(p), p)))
                   tag == foreign_emitters[k[1]].is_default_payload
               IN  /\ (~tag /\ Len(p) \in 18..49)
                          => r = Fail("InvalidPayload", Accounts)
                   /\ (tag /\ Len(p) >= 50)
                          => IF from_be_bytes(SubSeq(p, 1, 2)) = config.chain_id
                             THEN /\ r.err = "Ok"
                                  /\ r.acc.current_value
                                     = from_be_bytes(SubSeq(p, 3, 18))
                                  /\ r.acc.received_messages[k].value
                                     = from_be_bytes(SubSeq(p, 3, 18))
                             ELSE r = Fail("InvalidDestinationChainId", Accounts)

\* the compact emitter of chain 2 has delivered the 50-byte payload whose
\* first 18 bytes read as (1, 772): the value applied is 772, not the 258
\* that the payload carries in the extended format
C14_Witness ==
    /\ last = [op |-> "receive_value", err |-> "Ok"]
    /\ 2 \in DOMAIN foreign_emitters
    /\ foreign_emitters[2].is_default_payload
    /\ current_value = 772
    /\ <<2, 1>> \in DOMAIN received_messages
    /\ received_messages[<<2, 1>>].value = 772

\* C15: receive_value of a PostedVAA that carries the key (emitter chain,
\* sequence) k under an asserted key j # k never succeeds and changes no
\* state, and fails with InvalidPayload when the account validation passes;
\* hence a receive_value that succeeds, and the ReceivedMessage it creates
\* under the asserted key, is for a PostedVAA that carries that very key.
C15_AssertedKeyIsEnvelopeKey ==
    /\ \A k \in VaaKeys, j \in AssertedKeys :
           j # k =>
             \A vaa \in VaasOf(k) :
                LET a == ReceiveArg(j, vaa)
                    r == ReceiveValueIx(Accounts, a)
                IN  /\ a \in ReceiveArgs
                    /\ r.err # "Ok"
                    /\ r.acc = Accounts
                    /\ ReceiveValue_accounts(Accounts, a).err = "Ok"
                           => r.err = "InvalidPayload"
    /\ \A a \in ReceiveArgs :
           LET r == ReceiveValueIx(Accounts, a)
           IN  r.err = "Ok"
                  => /\ a.posted_vaa \in VaasOf(ReceivedKey(a))
                     /\ DOMAIN r.acc.received_messages
                        = DOMAIN received_messages \cup {ReceivedKey(a)}

\* the PostedVAA of key (2, 1) has been delivered; presented again under the
\* asserted key (2, 2), which is free, it has failed with InvalidPayload
C15_Witness ==
    /\ last = [op |-> "receive_value", err |-> "InvalidPayload"]
    /\ DOMAIN received_messages = {<<2, 1>>}
    /\ Admitted(<<2, 2>>, AddrA)
    /\ foreign_emitters[2].is_default_payload
    /\ ReceiveValueIx(Accounts,
           ReceiveArg(<<2, 2>>,
               PostedVaa(1, 2, AddrA, 18,
                         CompactPayload(SOLANA_CHAIN_ID, 258))))
       = Fail("InvalidPayload", Accounts)

\* C16: receive_value succeeds only if a ForeignEmitter account exists for
\* the emitter chain and its address equals, byte for byte, the emitter
\* address in the PostedVAA. Without the account it fails with
\* AccountNotInitialized; with an account holding another address (the
\* account validation passing) it fails with InvalidForeignEmitter; either
\* way the current value and the received messages are as before.
C16_RegisteredSenderOnly ==
    /\ \A a \in ReceiveArgs :
           LET r == ReceiveValueIx(Accounts, a)
           IN  /\ r.err = "Ok"
                      => /\ a.emitter_chain \in DOMAIN foreign_emitters
                         /\ a.posted_vaa \in
                                VaasFrom(ReceivedKey(a),
                                         foreign_emitters[a.emitter_chain].address)
               /\ a.emitter_chain \notin DOMAIN foreign_emitters
                      => r = Fail("AccountNotInitialized", Accounts)
    /\ \A k \in VaaKeys, addr \in {AddrA, AddrB} :
           (/\ k[1] \in DOMAIN foreign_emitters
            /\ foreign_emitters[k[1]].address # addr
            /\ k \notin DOMAIN received_messages)
               => \A vaa \in VaasFrom(k, addr) :
                      /\ ReceiveArg(k, vaa) \in ReceiveArgs
                      /\ ReceiveValueIx(Accounts, ReceiveArg(k, vaa))
                         = Fail("InvalidForeignEmitter", Accounts)

\* with AddrB registered for chain 2 and nothing received, a receive has
\* failed with InvalidForeignEmitter: the PostedVAAs of AddrA, which differs
\* from AddrB in its last byte, are refused
C16_Witness ==
    /\ last = [op |-> "receive_value", err |-> "InvalidForeignEmitter"]
    /\ 2 \in DOMAIN foreign_emitters
    /\ foreign_emitters[2].address = AddrB
    /\ received_messages = << >>
    /\ current_value = 0

\* the payload p is long enough for the format of the tag and names, where
\* that format has the destination (bytes 0..1 compact, 32..33 extended),
\* another chain than this one
WrongDestination(tag, p) ==
    IF tag
    THEN Len(p) >= 18 /\ from_be_bytes(SubSeq(p, 1, 2)) # config.chain_id
    ELSE Len(p) >= 50 /\ from_be_bytes(SubSeq(p, 33, 34)) # config.chain_id

\* C17: in the compact and in the extended branch alike, a payload whose
\* destination is not this chain makes receive_value fail with
\* InvalidDestinationChainId; nothing changes, no ReceivedMessage is left at
\* the key, and the key is not used up: a PostedVAA of the same key with a
\* payload for this chain is accepted afterwards.
C17_WrongDestinationFails ==
    \A k \in VaaKeys, p \in Payloads :
        LET tag == foreign_emitters[k[1]].is_default_payload
            r == ReceiveValueIx(Accounts,
                     ReceiveArg(k, PostedVaa(k[2], k[1], AddrA, Len(p), p)))
            good == IF tag
                    THEN CompactPayload(SOLANA_CHAIN_ID, 258)
                    ELSE InboundPayload(TxIdA, SOLANA_CHAIN_ID, 258)
        IN  (Admitted(k, AddrA) /\ WrongDestination(tag, p))
               => /\ r = Fail("InvalidDestinationChainId", Accounts)
                  /\ k \notin DOMAIN r.acc.received_messages
                  /\ r.acc.current_value = current_value
                  /\ ReceiveValueIx(r.acc,
                         ReceiveArg(k, PostedVaa(k[2], k[1], AddrA,
                                                 Len(good), good))).err = "Ok"

\* the only emitter registered is the extended one of chain 3, and a receive
\* has failed with InvalidDestinationChainId, nothing being received
C17_Witness ==
    /\ last = [op |-> "receive_value", err |-> "InvalidDestinationChainId"]
    /\ DOMAIN foreign_emitters = {3}
    /\ ~foreign_emitters[3].is_default_payload
    /\ WrongDestination(FALSE, InboundPayload(TxIdB, 3, 258))
    /\ received_messages = << >>
    /\ current_value = 0

\* C18, in a state: the current value is 0 while nothing has been received
\* and the value of some received message afterwards; register_emitter,
\* send_value and a receive_value that fails leave it as it is, and a
\* receive_value that succeeds sets it to the value it delivers.
C18_ValueInState ==
    /\ received_messages = << >> => current_value = 0
    /\ received_messages # << >>
          => \E k \in DOMAIN received_messages :
                 received_messages[k].value = current_value
    /\ \A a \in RegisterArgs :
           RegisterEmitterIx(Accounts, a).acc.current_value = current_value
    /\ \A a \in SendArgs :
           SendValueIx(Accounts, a).acc.current_value = current_value
    /\ \A a \in ReceiveArgs :
           LET r == ReceiveValueIx(Accounts, a)
           IN  IF r.err = "Ok"
               THEN r.acc.current_value
                    = r.acc.received_messages[ReceivedKey(a)].value
               ELSE r.acc.current_value = current_value

\* C18, in a step: a receive_value that succeeds creates one received message
\* and the current value becomes its value; every other step keeps the
\* current value.
C18_ValueStep ==
    IF last' = [op |-> "receive_value", err |-> "Ok"]
    THEN \E k \in DOMAIN received_messages' \ DOMAIN received_messages :
             /\ DOMAIN received_messages' = DOMAIN received_messages \cup {k}
             /\ current_value' = received_messages'[k].value
    ELSE current_value' = current_value

\* C18: in every reachable state the current value is the value delivered
\* by the most recent successful receive_value, or 0 if there was none.
C18_CurrentValueIsLastReceived ==
    []C18_ValueInState /\ [][C18_ValueStep]_vars

\* 16909060 was received, then 258: the current value is the later, smaller one
C18_Witness ==
    /\ last = [op |-> "receive_value", err |-> "Ok"]
    /\ DOMAIN received_messages = {<<2, 1>>, <<2, 2>>}
    /\ received_messages[<<2, 1>>].value = 16909060
    /\ received_messages[<<2, 2>>].value = 258
    /\ current_value = 258

\* C19, in a state: every received message sits at the key made of its own
\* emitter chain and sequence and has batch id 0, and no register_emitter,
\* send_value or receive_value, whatever its arguments, removes or changes it.
C19_RecordsInState ==
    /\ \A k \in DOMAIN received_messages :
           /\ received_messages[k].emitter_chain = k[1]
           /\ received_messages[k].sequence = k[2]
           /\ received_messages[k].batch_id = 0
    /\ \A k \in DOMAIN received_messages :
           /\ \A a \in RegisterArgs :
                  LET r == RegisterEmitterIx(Accounts, a)
                  IN  /\ k \in DOMAIN r.acc.received_messages
                      /\ r.acc.received_messages[k] = received_messages[k]
           /\ \A a \in ReceiveArgs :
                  LET r == ReceiveValueIx(Accounts, a)
                  IN  /\ k \in DOMAIN r.acc.received_messages
                      /\ r.acc.received_messages[k] = received_messages[k]
           /\ \A a \in SendArgs :
                  LET r == SendValueIx(Accounts, a)
                  IN  /\ k \in DOMAIN r.acc.received_messages
                      /\ r.acc.received_messages[k] = received_messages[k]

\* C19, in a step: the received messages of before are all there, unchanged,
\* and one that is new holds the value that the step has applied.
C19_RecordsStep ==
    /\ \A k \in DOMAIN received_messages :
           /\ k \in DOMAIN received_messages'
           /\ received_messages'[k] = received_messages[k]
    /\ \A k \in DOMAIN received_messages' \ DOMAIN received_messages :
           received_messages'[k].value = current_value'

\* C19: once a ReceivedMessage exists for a key it exists in every later
\* state with the same fields: sequence and emitter chain those of the key,
\* value the value applied when it was created, batch id 0.
C19_RecordsAreImmutable ==
    []C19_RecordsInState /\ [][C19_RecordsStep]_vars

\* the message of key (2, 1) keeps its value 16909060 after another message
\* has set the current value to 258 and a register_emitter has followed
C19_Witness ==
    /\ last.op = "register_emitter"
    /\ <<2, 1>> \in DOMAIN received_messages
    /\ received_messages[<<2, 1>>]
       = [sequence |-> 1, emitter_chain |-> 2, value |-> 16909060, batch_id |-> 0]
    /\ current_value = 258

\* C20: config.nonce never decreases and never wraps: no send_value, the one
\* invoked with config.nonce = 2^32 - 1 included, leaves config.nonce smaller
\* than it was.
C20_Original ==
    \A a \in SendArgs :
        u32_le(config.nonce, SendValueIx(Accounts, a).acc.config.nonce)

\* what the code does, in a state: below 2^32 - 1 no send_value lowers config.nonce;
\* at 2^32 - 1 a send_value fails and changes nothing in a build with overflow
\* checks, and in a build without them it either fails and changes nothing or
\* succeeds and leaves config.nonce at 0.
C20_NonceInState ==
    \A a \in SendArgs :
        LET r == SendValueIx(Accounts, a)
        IN  /\ config.nonce # u32_MAX
                   => /\ u32_le(config.nonce, r.acc.config.nonce)
                      /\ r.err = "Ok" => r.acc.config.nonce # config.nonce
            /\ (config.nonce = u32_MAX /\ program.overflow_checks)
                   => r.err # "Ok" /\ r.acc = Accounts
            /\ (config.nonce = u32_MAX /\ ~program.overflow_checks)
                   => IF r.err = "Ok"
                      THEN r.acc.config.nonce = u32(0)
                      ELSE r.acc = Accounts

\* what the code does, in a step: config.nonce does not decrease, except from
\* 2^32 - 1 to 0 by a send_value that succeeds in a build without overflow
\* checks.
C20_NonceStep ==
    \/ u32_le(config.nonce, config'.nonce)
    \/ /\ config.nonce = u32_MAX
       /\ ~program.overflow_checks
       /\ config'.nonce = u32(0)
       /\ last' = [op |-> "send_value", err |-> "Ok"]

\* what the code does: config.nonce never decreases and never wraps while
\* it is below 2^32 - 1; send_value invoked with config.nonce = 2^32 - 1
\* fails in a build with overflow checks, the nonce staying where it is, and
\* wraps the nonce to 0 in a build without them.
C20_OverflowOutcomes ==
    []C20_NonceInState /\ [][C20_NonceStep]_vars

\* built without overflow checks, the program has posted the message of
\* nonce 2^32 - 1 and config.nonce is 0
C20_Witness ==
    /\ last = [op |-> "send_value", err |-> "Ok"]
    /\ ~program.overflow_checks
    /\ Len(wormhole_messages) = 1
    /\ wormhole_messages[1].nonce = u32_MAX
    /\ config.nonce = u32(0)

\* C21, in a state: the k-th message posted carries the nonce k - 1, so no
\* two carry the same, and config.nonce is the number of messages posted; a
\* send_value that succeeds posts one more message, with config.nonce, and
\* one that fails posts none.
C21_NoncesInState ==
    /\ \A k \in 1..Len(wormhole_messages) :
           wormhole_messages[k].nonce = u32(k - 1)
    /\ \A i, j \in 1..Len(wormhole_messages) :
           i # j => wormhole_messages[i].nonce # wormhole_messages[j].nonce
    /\ config.nonce = u32(Len(wormhole_messages))
    /\ \A a \in SendArgs :
           LET r == SendValueIx(Accounts, a)
           IN  IF r.err = "Ok"
               THEN /\ Len(r.acc.wormhole_messages) = Len(wormhole_messages) + 1
                    /\ SubSeq(r.acc.wormhole_messages, 1, Len(wormhole_messages))
                       = wormhole_messages
                    /\ r.acc.wormhole_messages[Len(wormhole_messages) + 1].nonce
                       = config.nonce
               ELSE r.acc.wormhole_messages = wormhole_messages

\* C21, in a step: the messages posted before stay as they are, in their
\* order; a send_value that fails adds none and one that succeeds adds one.
C21_NoncesStep ==
    last'.op = "send_value"
        => IF last'.err = "Ok"
           THEN /\ Len(wormhole_messages') = Len(wormhole_messages) + 1
                /\ SubSeq(wormhole_messages', 1, Len(wormhole_messages))
                   = wormhole_messages
           ELSE wormhole_messages' = wormhole_messages

\* C21: whatever the interleaving of send_value calls that succeed and that
\* fail, the messages posted carry, in the order of posting, the nonces
\* 0, 1, 2, ...: none twice and none left out.
C21_NoncesAreConsecutive ==
    []C21_NoncesInState /\ [][C21_NoncesStep]_vars

\* a send_value has failed for want of the fee after one message was posted:
\* the message posted carries nonce 0 and the next one will carry nonce 1
C21_Witness ==
    /\ last = [op |-> "send_value", err |-> "InsufficientFee"]
    /\ Len(wormhole_messages) = 1
    /\ wormhole_messages[1].nonce = u32(0)
    /\ config.nonce = u32(1)
    /\ bridge_fee(wormhole_bridge) = 2
    /\ lamports.fee_collector = 2

\* C22: in every reachable state each ForeignEmitter account sits at the PDA
\* of the chain id it stores, that chain id is not Solana's, and its address
\* is not all zero; register_emitter with the all-zero address never succeeds
\* and leaves the emitters unchanged, and fails with ZeroEmitterAddress when
\* the owner calls it for a foreign chain that has no emitter yet.
C22_RegistryInvariant ==
    /\ \A c \in DOMAIN foreign_emitters :
           /\ foreign_emitters[c].chain_id = c
           /\ c # config.chain_id
           /\ foreign_emitters[c].address # ZeroAddress
    /\ \A a \in RegisterArgs :
           a.emitter_address = ZeroAddress
               => LET r == RegisterEmitterIx(Accounts, a)
                  IN  /\ r.err # "Ok"
                      /\ r.acc = Accounts
                      /\ (/\ a.owner = config.owner
                          /\ a.chain_id # SOLANA_CHAIN_ID
                          /\ a.chain_id \notin DOMAIN foreign_emitters)
                             => r.err = "ZeroEmitterAddress"

\* with the emitter AddrA of chain 2 registered, a register_emitter has
\* failed with ZeroEmitterAddress: chain 3 has no emitter
C22_Witness ==
    /\ last = [op |-> "register_emitter", err |-> "ZeroEmitterAddress"]
    /\ DOMAIN foreign_emitters = {2}
    /\ foreign_emitters[2].chain_id = 2
    /\ foreign_emitters[2].address = AddrA

\* the buffer is shorter than the fixed part of a PostedVAA account
TooShort(vaa) == Len(vaa) < 95

\* the key at offsets 57 (chain) and 49 (sequence) is not the asserted one
Mismatch(a) ==
    \/ from_le_bytes(SubSeq(a.posted_vaa, 58, 59)) # a.emitter_chain
    \/ from_le_bytes(SubSeq(a.posted_vaa, 50, 57)) # a.sequence

\* the address at offset 59 is not the registered one
WrongSender(a) ==
    SubSeq(a.posted_vaa, 60, 91) # foreign_emitters[a.emitter_chain].address

\* the length at offset 91 is more than the buffer holds behind offset 95
Truncated(vaa) == Len(vaa) < 95 + from_le_bytes(SubSeq(vaa, 92, 95))

\* the buffer fails the parse step: too short, mismatching or truncated
ParseFails(a) ==
    \/ TooShort(a.posted_vaa)
    \/ Mismatch(a)
    \/ Truncated(a.posted_vaa)

\* the result of the first check that fails, in the order of the code
FirstFailure(a) ==
    IF a.emitter_chain \notin DOMAIN foreign_emitters
    THEN "AccountNotInitialized"
    ELSE IF ReceivedKey(a) \in DOMAIN received_messages
    THEN "AccountAlreadyInUse"
    ELSE IF a.posted_vaa_owner # config.wormhole_program
    THEN "ConstraintOwner"
    ELSE IF TooShort(a.posted_vaa) \/ Mismatch(a)
    THEN "InvalidPayload"
    ELSE IF WrongSender(a)
    THEN "InvalidForeignEmitter"
    ELSE IF Truncated(a.posted_vaa)
    THEN "InvalidPayload"
    ELSE receive_value_decode(
             foreign_emitters[a.emitter_chain],
             SubSeq(a.posted_vaa, 96, Len(a.posted_vaa)),
             config.chain_id).err

\* C23 as claimed: a receive_value whose buffer fails the parse step fails
\* with the parser's error, InvalidPayload, even when a ReceivedMessage
\* exists at the asserted key.
C23_Original ==
    \A a \in ReceiveArgs :
        (/\ a.emitter_chain \in DOMAIN foreign_emitters
         /\ ReceivedKey(a) \in DOMAIN received_messages
         /\ ParseFails(a))
            => ReceiveValueIx(Accounts, a).err = "InvalidPayload"

\* C23, amended: receive_value checks, in this order, that the emitter
\* account of the asserted chain exists, that no ReceivedMessage is at the
\* asserted key, that Wormhole owns the PostedVAA account, the size and the
\* key of the buffer, the sender, the payload length, and the payload; it
\* reports the first failure. A buffer that fails the parse step thus gets
\* AccountAlreadyInUse when the asserted key has a ReceivedMessage, and a
\* truncated buffer from an unregistered sender gets InvalidForeignEmitter.
C23_Amended ==
    \A a \in ReceiveArgs :
        LET r == ReceiveValueIx(Accounts, a)
        IN  /\ r.err = FirstFailure(a)
            /\ (/\ a.emitter_chain \in DOMAIN foreign_emitters
                /\ ReceivedKey(a) \in DOMAIN received_messages
                /\ ParseFails(a))
                   => r.err = "AccountAlreadyInUse"

\* a receive_value has failed with AccountAlreadyInUse where the key (2, 1)
\* has a ReceivedMessage, a state in which the empty buffer presented under
\* that key gets that error and not the parser's
C23_Witness ==
    /\ last = [op |-> "receive_value", err |-> "AccountAlreadyInUse"]
    /\ <<2, 1>> \in DOMAIN received_messages
    /\ ParseFails(ReceiveArg(<<2, 1>>, << >>))
    /\ ReceiveArg(<<2, 1>>, << >>) \in ReceiveArgs
    /\ ReceiveValueIx(Accounts, ReceiveArg(<<2, 1>>, << >>)).err
       = "AccountAlreadyInUse"

====
